---- MODULE Spec2Model ----
(***************************************************************************)
(* The avatar synthesis pipeline of src/Wav2Lip/wav2lip.py (class          *)
(* Wav2LipAAG): the audio feature aligner loop of generate_avatar, the     *)
(* face locator face_detect with its batch-size halving and box smoothing, *)
(* the batch assembler datagen and the inference / compositing loop.       *)
(*                                                                         *)
(* An image is modelled by what the opaque detection collaborator answers  *)
(* for it: a rectangle <<x1, y1, x2, y2>> or None.  Sequence positions are *)
(* 1-based in TLA+; every index that the program itself computes (slice    *)
(* bounds, idx, window bounds) is kept 0-based as in the source.           *)
(***************************************************************************)
EXTENDS Integers, Sequences, FiniteSets, TLC

VARIABLES
    face_det_batch_size,  \* self.face_det_batch_size
    fps,                  \* self.fps as a fraction <<numerator, denominator>>
    static,               \* self.static
    nosmooth,             \* self.nosmooth
    wav2lip_batch_size,   \* self.wav2lip_batch_size
    img_size,             \* self.img_size
    faulty_frame,         \* temp/faulty_frame.jpg: 0-based frame written, -1 none
    pc,                   \* position of the running call
    entry,                \* the method the caller invoked
    error,                \* exception that ended the last call, or "none"
    mel_len,              \* len(mel[0]), the number of feature columns T
    i_mel,                \* i of the aligner loop
    mel_chunks,           \* column ranges <<lo, hi>> (hi exclusive) emitted
    frames,               \* the frames argument of datagen
    images,               \* the images argument of face_detect
    batch_size,           \* local batch_size of face_detect
    pos,                  \* i of the chunk loop of face_detect
    predictions,          \* local predictions of face_detect
    clamped,              \* boxes before smoothing (np.array(results))
    windows,              \* slice <<lo, hi>> taken as window for each index
    results,              \* value face_detect returned
    next_mel,             \* number of mels the generator has consumed
    batch,                \* batch the generator yielded last
    yielded,              \* every batch the generator has yielded, in order
    heap,                 \* the pixel arrays: source frames, then the copies
    frames_list,          \* frames_list of generate_avatar
    clip,                 \* the VideoClip returned, or NoClip
    sampled,              \* the last call of the clip's make_frame, or NoSample
    attempts,             \* batch sizes of the detection passes of this call
    ooms,                 \* batch sizes at which the detector raised
    discarded,            \* predictions dropped by the retries of this call
    model_calls,          \* batches submitted to self.model in this call
    earlier_oom,          \* some earlier call recovered from or died of OOM
    chats,                \* the chat collection: id -> stored document
    stack,                \* the frames of the running archive_chat calls
    archive_call          \* the id archive_chat was called with and the
                          \* collection as it was then, or NoCall

cfgVars == <<face_det_batch_size, fps, static, nosmooth, wav2lip_batch_size,
            img_size>>
alignVars == <<mel_len, i_mel, mel_chunks>>
detVars == <<images, batch_size, pos, predictions, attempts, ooms, discarded>>
boxVars == <<clamped, windows, results>>
genVars == <<frames, next_mel, batch, yielded, heap, frames_list, clip,
            sampled, model_calls>>
chatVars == <<chats, stack, archive_call>>
vars == <<cfgVars, faulty_frame, pc, entry, error, alignVars, detVars,
          boxVars, genVars, earlier_oom, chatVars>>

(***************************************************************************)
(* Bounds of the model.                                                    *)
(***************************************************************************)
MaxT == 64
MaxMel == 24
MaxFrames == 3
MaxBoxFrames == 6
FrameH == 20
FrameW == 8
MaxItems == 6
MaxCap == 3
MaxClipT == 32
MaxSampled == 40
MaxBatch == 9
MaxChats == 3

(***************************************************************************)
(* Program constants.                                                      *)
(***************************************************************************)
DefaultFaceDetBatchSize == 64
DefaultWav2LipBatchSize == 256
DefaultImgSize == 96
mel_step_size == 16
FeatureRate == 80
SmoothT == 5
pads == <<0, 10, 0, 0>>

None == <<>>
NoClip == <<>>
NoSample == <<>>
NoCall == <<>>

Min(a, b) == IF a < b THEN a ELSE b
Max(a, b) == IF a > b THEN a ELSE b

(***************************************************************************)
(* Python slicing: a bound k of a slice of a sequence of length n is       *)
(* counted from the end when negative and clipped to [0, n].               *)
(***************************************************************************)
PyBound(n, k) == IF k < 0 THEN Max(k + n, 0) ELSE Min(k, n)
PySlice(n, start, stop) == <<PyBound(n, start), PyBound(n, stop)>>
PySliceFrom(n, start) == <<PyBound(n, start), n>>
SliceLen(s) == Max(s[2] - s[1], 0)

(***************************************************************************)
(* int(x) of a float and the cast of a float stored into an integer array  *)
(* both truncate toward zero.                                              *)
(***************************************************************************)
\* Variant: rounds to the nearest integer instead.
TruncDivNearest(a, b) == IF 2 * a + b >= 0 THEN (2 * a + b) \div (2 * b)
                         ELSE -((-(2 * a + b)) \div (2 * b))
TruncDiv(a, b) == IF a >= 0 THEN a \div b ELSE -((-a) \div b)
CeilDiv(a, b) == IF a >= 0 THEN (a + b - 1) \div b ELSE -((-a) \div b)

(***************************************************************************)
(* The aligner loop of generate_avatar.  mel_idx_multiplier = 80.0 / fps   *)
(* and i * mel_idx_multiplier are IEEE doubles: DoubleShortfall lists the  *)
(* i at which the rounded product lies just below the integer i*80/fps, so *)
(* that int() returns one less than the exact floor (fps = 77: 80.0/77 is  *)
(* rounded down, and 77*k times it is below 80*k).                         *)
(***************************************************************************)
DoubleShortfall(f) == IF f = <<77, 1>> THEN {77, 154, 231, 308, 385} ELSE {}

\* Variant: the start index is rounded to the nearest column.
StartIdxRounded(k) ==
    (2 * k * FeatureRate * fps[2] + fps[1]) \div (2 * fps[1])

StartIdx(k) ==
    LET exact == (k * FeatureRate * fps[2]) \div fps[1]
    IN  IF k \in DoubleShortfall(fps) THEN exact - 1 ELSE exact

\* Variant: the loop also ends on a window that ends exactly at column T.
LoopEndsInclusive(start) == start + mel_step_size >= mel_len
LoopEnds(start) == start + mel_step_size > mel_len

(***************************************************************************)
(* face_detect: padding and one-sided clamping of a detector rectangle     *)
(* <<x1, y1, x2, y2>> (every image of a call has shape FrameH x FrameW).   *)
(***************************************************************************)
ClampBox(rect) ==
    LET y1 == Max(0, rect[2] - pads[1])
        y2 == Min(FrameH, rect[4] + pads[2])
        x1 == Max(0, rect[1] - pads[3])
        x2 == Min(FrameW, rect[3] + pads[4])
    IN  <<x1, y1, x2, y2>>

(***************************************************************************)
(* get_smoothened_boxes: the loop runs over k = 0 .. len(boxes)-1 and      *)
(* writes each mean back into boxes, an integer array, before the next     *)
(* index is read.                                                          *)
(***************************************************************************)
SmoothWindow(n, k, T) ==
    IF k + T > n THEN PySliceFrom(n, n - T) ELSE PySlice(n, k, k + T)

RECURSIVE SumCoord(_, _, _, _)
SumCoord(boxes, c, lo, hi) ==
    IF lo >= hi THEN 0 ELSE boxes[lo + 1][c] + SumCoord(boxes, c, lo + 1, hi)

\* Variant: the sum of the window is divided by the window size asked for.
MeanBoxByT(boxes, w) ==
    [c \in 1..4 |-> TruncDiv(SumCoord(boxes, c, w[1], w[2]), SmoothT)]
MeanBox(boxes, w) ==
    [c \in 1..4 |-> TruncDiv(SumCoord(boxes, c, w[1], w[2]), w[2] - w[1])]

RECURSIVE SmoothFrom(_, _, _)
SmoothFrom(boxes, k, T) ==
    IF k >= Len(boxes) THEN boxes
    ELSE SmoothFrom([boxes EXCEPT ![k + 1] =
                        MeanBox(boxes, SmoothWindow(Len(boxes), k, T))],
                    k + 1, T)

\* Variant: every mean is taken over an untouched copy of the boxes.
get_smoothened_boxes_copy(boxes, T) ==
    [j \in 1..Len(boxes) |-> MeanBox(boxes, SmoothWindow(Len(boxes), j - 1, T))]

get_smoothened_boxes(boxes, T) == SmoothFrom(boxes, 0, T)

(***************************************************************************)
(* face_detect: the retry loop.                                            *)
(***************************************************************************)
\* Variant: the batch size is quartered.
HalveTwice(bs) == bs \div 4
\* Variant: the half is rounded up.
HalveCeil(bs) == (bs + 1) \div 2
Halve(bs) == bs \div 2

\* Variant: the call gives up at batch size 2 already.
IsMinBatchOrTwo(bs) == bs <= 2
IsMinBatch(bs) == bs = 1

\* Variant: predictions is created once, before the while loop.
PredictionsKept(preds) == preds
PredictionsAtRetry(preds) == <<>>

ChunkPredictions(lo, hi) ==
    [k \in 1..(hi - lo) |->
        [frame |-> lo + k - 1, bs |-> batch_size, rect |-> images[lo + k]]]

NoFace(preds) == {j \in 1..Len(preds) : preds[j].rect = None}
\* Variant: the last frame without a face is reported.
LastNoFace(preds) == CHOOSE j \in NoFace(preds) : \A m \in NoFace(preds) : m <= j
FirstNoFace(preds) == CHOOSE j \in NoFace(preds) : \A m \in NoFace(preds) : j <= m

FaceDetectBegin(imgs) ==
    /\ images' = imgs
    /\ batch_size' = face_det_batch_size
    /\ pos' = 0
    /\ predictions' = <<>>
    /\ attempts' = <<face_det_batch_size>>
    /\ ooms' = <<>>
    /\ discarded' = 0
    /\ clamped' = <<>>
    /\ windows' = <<>>
    /\ results' = <<>>
    /\ pc' = "detect"

FaceDetectCall(imgs) ==
    /\ pc = "idle"
    /\ entry' = "face_detect"
    /\ error' = "none"
    /\ FaceDetectBegin(imgs)
    /\ mel_len' = 0 /\ i_mel' = 0 /\ mel_chunks' = <<>>
    /\ frames' = <<>> /\ next_mel' = 0 /\ batch' = <<>>
    /\ yielded' = <<>> /\ heap' = <<>>
    /\ frames_list' = <<>> /\ clip' = NoClip /\ model_calls' = 0
    /\ sampled' = NoSample
    /\ UNCHANGED <<chatVars, cfgVars, faulty_frame, earlier_oom>>

DetectChunk ==
    /\ pc = "detect"
    /\ pos < Len(images)
    /\ LET c == PySlice(Len(images), pos, pos + batch_size)
       IN  predictions' = predictions \o ChunkPredictions(c[1], c[2])
    /\ pos' = pos + batch_size
    /\ UNCHANGED <<chatVars, cfgVars, faulty_frame, pc, entry, error, alignVars, images,
                   batch_size, attempts, ooms, discarded, boxVars, genVars,
                   earlier_oom>>

\* Variant: the halved size is stored in self.face_det_batch_size as well.
DetectOOMGlobal ==
    /\ pc = "detect"
    /\ pos < Len(images)
    /\ ooms' = Append(ooms, batch_size)
    /\ IF IsMinBatch(batch_size)
       THEN /\ error' = "ImageTooBig"
            /\ pc' = "returned"
            /\ UNCHANGED <<batch_size, pos, predictions, attempts, discarded,
                           face_det_batch_size>>
       ELSE /\ batch_size' = Halve(batch_size)
            /\ face_det_batch_size' = Halve(batch_size)
            /\ attempts' = Append(attempts, Halve(batch_size))
            /\ predictions' = PredictionsAtRetry(predictions)
            /\ discarded' = discarded + Len(predictions) - Len(predictions')
            /\ pos' = 0
            /\ UNCHANGED <<error, pc>>
    /\ UNCHANGED <<chatVars, fps, static, nosmooth, wav2lip_batch_size, img_size,
                   faulty_frame, entry, alignVars, images, boxVars, genVars,
                   earlier_oom>>

DetectOOM ==
    /\ pc = "detect"
    /\ pos < Len(images)
    /\ ooms' = Append(ooms, batch_size)
    /\ IF IsMinBatch(batch_size)
       THEN /\ error' = "ImageTooBig"
            /\ pc' = "returned"
            /\ UNCHANGED <<batch_size, pos, predictions, attempts, discarded>>
       ELSE /\ batch_size' = Halve(batch_size)
            /\ attempts' = Append(attempts, Halve(batch_size))
            /\ predictions' = PredictionsAtRetry(predictions)
            /\ discarded' = discarded + Len(predictions) - Len(predictions')
            /\ pos' = 0
            /\ UNCHANGED <<error, pc>>
    /\ UNCHANGED <<chatVars, cfgVars, faulty_frame, entry, alignVars, images, boxVars,
                   genVars, earlier_oom>>

BoxesOf(preds) == [j \in 1..Len(preds) |-> ClampBox(preds[j].rect)]

\* Variant: the coordinates are recorded as (x1, x2, y1, y2).
ResultsOfXY(boxes) ==
    [j \in 1..Len(boxes) |->
        [frame |-> j - 1,
         coords |-> <<boxes[j][1], boxes[j][3], boxes[j][2], boxes[j][4]>>]]

ResultsOf(boxes) ==
    [j \in 1..Len(boxes) |->
        [frame |-> j - 1,
         coords |-> <<boxes[j][2], boxes[j][4], boxes[j][1], boxes[j][3]>>]]

ComputeBoxes ==
    /\ pc = "detect"
    /\ pos >= Len(images)
    /\ IF NoFace(predictions) # {}
       THEN /\ faulty_frame' = predictions[FirstNoFace(predictions)].frame
            /\ error' = "FaceNotDetected"
            /\ pc' = "returned"
            /\ UNCHANGED <<boxVars, next_mel>>
       ELSE /\ clamped' = BoxesOf(predictions)
            /\ windows' = IF nosmooth THEN <<>>
                          ELSE [j \in 1..Len(predictions) |->
                                   SmoothWindow(Len(predictions), j - 1, SmoothT)]
            /\ results' = ResultsOf(IF nosmooth THEN clamped'
                                    ELSE get_smoothened_boxes(clamped', SmoothT))
            /\ pc' = IF entry = "face_detect" THEN "returned" ELSE "datagen"
            /\ next_mel' = 0
            /\ UNCHANGED <<faulty_frame, error>>
    /\ UNCHANGED <<chatVars, cfgVars, entry, alignVars, detVars, frames, batch, yielded,
                   heap, frames_list, clip, sampled, model_calls, earlier_oom>>

(***************************************************************************)
(* generate_avatar: the call, the aligner loop and the creation of the     *)
(* generator; full_frames = [frames_array] holds one frame.                *)
(***************************************************************************)
\* The arrays of n source frames: array j holds the pixels of frame j - 1
\* and nothing has been written into it.
SourceArrays(n) == [j \in 1..n |-> [base |-> j - 1, made_for |-> -1, writes |-> <<>>]]

GenerateAvatar(T, face) ==
    /\ pc = "idle"
    /\ entry' = "generate_avatar"
    /\ error' = "none"
    /\ mel_len' = T
    /\ i_mel' = 0
    /\ mel_chunks' = <<>>
    /\ frames' = <<face>>
    /\ images' = <<>> /\ batch_size' = 0 /\ pos' = 0 /\ predictions' = <<>>
    /\ attempts' = <<>> /\ ooms' = <<>> /\ discarded' = 0
    /\ clamped' = <<>> /\ windows' = <<>> /\ results' = <<>>
    /\ next_mel' = 0 /\ batch' = <<>>
    /\ yielded' = <<>> /\ heap' = SourceArrays(1)
    /\ frames_list' = <<>> /\ clip' = NoClip /\ model_calls' = 0
    /\ sampled' = NoSample
    /\ pc' = "align"
    /\ UNCHANGED <<chatVars, cfgVars, faulty_frame, earlier_oom>>

\* Variant: a window that fits is not recorded and the index does not advance.
AlignerStepSpins ==
    /\ pc = "align"
    /\ IF LoopEnds(StartIdx(i_mel))
       THEN /\ mel_chunks' = Append(mel_chunks,
                                 PySliceFrom(mel_len, mel_len - mel_step_size))
            /\ pc' = "gen"
       ELSE UNCHANGED <<mel_chunks, pc>>
    /\ UNCHANGED <<chatVars, cfgVars, faulty_frame, entry, error, mel_len, i_mel, detVars,
                   boxVars, genVars, earlier_oom>>

AlignerStep ==
    /\ pc = "align"
    /\ LET start_idx == StartIdx(i_mel)
       IN  IF LoopEnds(start_idx)
           THEN /\ mel_chunks' = Append(mel_chunks,
                                     PySliceFrom(mel_len, mel_len - mel_step_size))
                /\ pc' = "gen"
                /\ UNCHANGED i_mel
           ELSE /\ mel_chunks' = Append(mel_chunks,
                        PySlice(mel_len, start_idx, start_idx + mel_step_size))
                /\ i_mel' = i_mel + 1
                /\ UNCHANGED pc
    /\ UNCHANGED <<chatVars, cfgVars, faulty_frame, entry, error, mel_len, detVars,
                   boxVars, genVars, earlier_oom>>

(***************************************************************************)
(* datagen called by itself with a list of frames and a list of n feature  *)
(* windows; the caller takes each batch and asks for the next.             *)
(***************************************************************************)
DatagenCall(fr, n) ==
    /\ pc = "idle"
    /\ entry' = "datagen"
    /\ error' = "none"
    /\ mel_len' = 0
    /\ i_mel' = 0
    /\ mel_chunks' = [k \in 1..n |-> <<k - 1, k - 1 + mel_step_size>>]
    /\ frames' = fr
    /\ images' = <<>> /\ batch_size' = 0 /\ pos' = 0 /\ predictions' = <<>>
    /\ attempts' = <<>> /\ ooms' = <<>> /\ discarded' = 0
    /\ clamped' = <<>> /\ windows' = <<>> /\ results' = <<>>
    /\ next_mel' = 0 /\ batch' = <<>>
    /\ yielded' = <<>> /\ heap' = SourceArrays(Len(fr))
    /\ frames_list' = <<>> /\ clip' = NoClip /\ model_calls' = 0
    /\ sampled' = NoSample
    /\ pc' = "gen"
    /\ UNCHANGED <<chatVars, cfgVars, faulty_frame, earlier_oom>>

(***************************************************************************)
(* datagen, from its first resumption to the call of face_detect.          *)
(* self.box stays [-1, -1, -1, -1], so faces are always detected.          *)
(* frames[0] of an empty list raises.                                      *)
(***************************************************************************)
GenStart ==
    /\ pc = "gen"
    /\ IF static /\ frames = <<>>
       THEN /\ error' = "IndexError"
            /\ pc' = "returned"
            /\ UNCHANGED <<detVars, boxVars>>
       ELSE /\ FaceDetectBegin(IF static THEN <<frames[1]>> ELSE frames)
            /\ UNCHANGED error
    /\ UNCHANGED <<chatVars, cfgVars, faulty_frame, entry, alignVars, genVars,
                   earlier_oom>>

(***************************************************************************)
(* datagen, one resumption of the generator after face_detect returned:    *)
(* items are built until the batch is full or the mels are used up.        *)
(* Arrays are named by their position in heap: frames[idx] is array        *)
(* idx + 1, and every frames[idx].copy() is a new array.  A crop is a view *)
(* of the array face_detect was given.  cv2.resize raises on an empty      *)
(* crop, and i % len(frames) on an empty list of frames.                   *)
(***************************************************************************)
FrameIdx(k) == IF static THEN 0 ELSE k % Len(frames)

FrameRef(idx) == idx + 1

CropEmpty(coords) ==
    \/ SliceLen(PySlice(FrameH, coords[1], coords[2])) = 0
    \/ SliceLen(PySlice(FrameW, coords[3], coords[4])) = 0

\* Variant: the frame is taken at i % len(frames) in static mode as well.
ItemFrameCycles(k, copy) ==
    [i |-> k, idx |-> FrameIdx(k),
     copied |-> FrameRef(k % Len(frames)),
     frame |-> copy,
     face |-> [of |-> FrameRef(results[FrameIdx(k) + 1].frame),
               coords |-> results[FrameIdx(k) + 1].coords],
     coords |-> results[FrameIdx(k) + 1].coords]
\* Variant: frame_to_save is frames[idx] itself, not a copy of it.
ItemNoCopy(k, copy) ==
    [i |-> k, idx |-> FrameIdx(k),
     copied |-> FrameRef(FrameIdx(k)),
     frame |-> FrameRef(FrameIdx(k)),
     face |-> [of |-> FrameRef(results[FrameIdx(k) + 1].frame),
               coords |-> results[FrameIdx(k) + 1].coords],
     coords |-> results[FrameIdx(k) + 1].coords]
\* One pass of the loop over the mels: copied is the array frames[idx],
\* frame the new array frame_to_save, face the crop that is resized.
Item(k, copy) ==
    [i |-> k, idx |-> FrameIdx(k),
     copied |-> FrameRef(FrameIdx(k)),
     frame |-> copy,
     face |-> [of |-> FrameRef(results[FrameIdx(k) + 1].frame),
               coords |-> results[FrameIdx(k) + 1].coords],
     coords |-> results[FrameIdx(k) + 1].coords]

\* Variant: the mels are paired with the items from the last one backwards.
MelAtReversed(k) == Len(mel_chunks) - 1 - k
\* m of enumerate(mels) at index k, named by its position in mels.
MelAt(k) == k

\* The four lists yielded together.
BatchOf(items) ==
    [img_batch |-> [j \in 1..Len(items) |-> items[j].face],
     mel_batch |-> [j \in 1..Len(items) |-> MelAt(items[j].i)],
     frame_batch |-> [j \in 1..Len(items) |-> items[j].frame],
     coords_batch |-> [j \in 1..Len(items) |-> items[j].coords]]

\* The arrays made by frames[idx].copy() for the items.
CopiesOf(items) ==
    [j \in 1..Len(items) |->
        [base |-> heap[items[j].copied].base,
         made_for |-> items[j].i,
         writes |-> heap[items[j].copied].writes]]

\* Variant: a partial last batch is not yielded.
TakeNoPartial(remaining) ==
    IF remaining >= wav2lip_batch_size THEN wav2lip_batch_size ELSE 0
\* Variant: a batch is yielded when it holds more than the capacity.
TakeOverfull(remaining) == Min(remaining, wav2lip_batch_size + 1)
Take(remaining) == Min(remaining, wav2lip_batch_size)

Duration(n) == <<n * fps[2], fps[1]>>

DatagenNext ==
    /\ pc = "datagen"
    /\ LET take == Take(Len(mel_chunks) - next_mel)
           items == [k \in 1..take |-> Item(next_mel + k - 1, Len(heap) + k)]
       IN  IF take > 0 /\ ~static /\ frames = <<>>
           THEN /\ error' = "ZeroDivisionError"
                /\ pc' = "returned"
                /\ UNCHANGED <<next_mel, batch, yielded, heap, clip>>
           ELSE IF \E k \in 1..take : CropEmpty(items[k].coords)
           THEN /\ error' = "cv2.error"
                /\ pc' = "returned"
                /\ UNCHANGED <<next_mel, batch, yielded, heap, clip>>
           ELSE IF take = 0
           THEN /\ clip' = IF entry = "generate_avatar"
                           THEN [frames |-> frames_list,
                                 duration |-> Duration(Len(frames_list))]
                           ELSE NoClip
                /\ pc' = "returned"
                /\ UNCHANGED <<next_mel, batch, yielded, heap, error>>
           ELSE /\ batch' = BatchOf(items)
                /\ yielded' = Append(yielded, batch')
                /\ heap' = heap \o CopiesOf(items)
                /\ next_mel' = next_mel + take
                /\ pc' = IF entry = "generate_avatar" THEN "infer" ELSE "datagen"
                /\ UNCHANGED <<clip, error>>
    /\ UNCHANGED <<chatVars, cfgVars, faulty_frame, entry, alignVars, detVars, boxVars,
                   frames, frames_list, sampled, model_calls, earlier_oom>>

(***************************************************************************)
(* generate_avatar: one pass of the inference loop.  The model is opaque:  *)
(* it may raise, and what it returns for a batch is one of ModelOutputs,   *)
(* one prediction per item.  cv2.resize raises on a target size that is    *)
(* not positive.  frame[y1:y2, x1:x2] = pred writes into the array the     *)
(* batch names at that position.                                           *)
(***************************************************************************)
ModelOutputs == {"identity", "dark"}

PasteFails(coords) ==
    \/ coords[4] - coords[3] <= 0
    \/ coords[2] - coords[1] <= 0

\* Variant: the predictions are paired with the frames from the last back.
WriteOfMirrored(b, out, j) ==
    [coords |-> b.coords_batch[j], out |-> out,
     face |-> b.img_batch[Len(b.img_batch) + 1 - j],
     mel |-> b.mel_batch[Len(b.mel_batch) + 1 - j]]
\* What the pass for position j of the batch writes: the prediction made
\* from img_batch[j] and mel_batch[j], resized to the extent of coords.
WriteOf(b, out, j) ==
    [coords |-> b.coords_batch[j], out |-> out,
     face |-> b.img_batch[j], mel |-> b.mel_batch[j]]

\* The writes of one pass over zip(pred, frames, coords) that go to array a,
\* in the order of the pass.
WritesTo(b, out, a) ==
    LET n == Min(Len(b.frame_batch), Len(b.coords_batch))
        all == [j \in 1..n |-> [to |-> b.frame_batch[j], w |-> WriteOf(b, out, j)]]
        mine == SelectSeq(all, LAMBDA x : x.to = a)
    IN  [j \in 1..Len(mine) |-> mine[j].w]

PasteAll(h, b, out) ==
    [a \in 1..Len(h) |-> [h[a] EXCEPT !.writes = @ \o WritesTo(b, out, a)]]

\* Variant: the failure is caught and the loop goes on to the next batch.
InferFailSwallowed ==
    /\ pc = "infer"
    /\ model_calls' = model_calls + 1
    /\ error' = "InferenceFailed"
    /\ pc' = "datagen"
    /\ UNCHANGED <<chatVars, cfgVars, faulty_frame, entry, alignVars, detVars, boxVars,
                   frames, next_mel, batch, yielded, heap, frames_list, clip,
                   sampled, earlier_oom>>
InferFail ==
    /\ pc = "infer"
    /\ model_calls' = model_calls + 1
    /\ error' = "InferenceFailed"
    /\ pc' = "returned"
    /\ UNCHANGED <<chatVars, cfgVars, faulty_frame, entry, alignVars, detVars, boxVars,
                   frames, next_mel, batch, yielded, heap, frames_list, clip,
                   sampled, earlier_oom>>

\* Variant: the predictions of a batch are not composited before the next
\* batch is asked for.
InferOkDeferred(out) ==
    /\ pc = "infer"
    /\ model_calls' = model_calls + 1
    /\ pc' = "datagen"
    /\ UNCHANGED <<chatVars, cfgVars, faulty_frame, entry, alignVars, detVars, boxVars,
                   frames, next_mel, batch, yielded, heap, frames_list, error,
                   clip, sampled, earlier_oom>>

InferOk(out) ==
    /\ pc = "infer"
    /\ model_calls' = model_calls + 1
    /\ IF \E k \in 1..Len(batch.coords_batch) : PasteFails(batch.coords_batch[k])
       THEN /\ error' = "cv2.error"
            /\ pc' = "returned"
            /\ UNCHANGED <<frames_list, heap>>
       ELSE /\ heap' = PasteAll(heap, batch, out)
            /\ frames_list' = frames_list \o batch.frame_batch
            /\ pc' = "datagen"
            /\ UNCHANGED error
    /\ UNCHANGED <<chatVars, cfgVars, faulty_frame, entry, alignVars, detVars, boxVars,
                   frames, next_mel, batch, yielded, clip, sampled, earlier_oom>>

(***************************************************************************)
(* Pixels.  One channel is followed, a pixel is an integer 0 .. 255.  A    *)
(* source frame is a checkerboard of 0 and 255 whose phase depends on the  *)
(* frame.  An array of heap holds the pixels of its base frame with its    *)
(* writes applied in order; the pixel values of a write are not stored but *)
(* computed from what the write pasted.                                    *)
(***************************************************************************)
SrcPixel(f, r, c) == ((r + c + f) % 2) * 255

(***************************************************************************)
(* cv2.resize(img, (dw, dh)) with the default bilinear interpolation, one  *)
(* pixel of the result; img[y][x] is the source, of sh rows and sw        *)
(* columns.  The centre of target pixel r lies at source coordinate        *)
(* (r + 0.5) * sh / dh - 0.5; the two nearest source rows are blended by   *)
(* its fractional part and coordinates outside the source are clamped to   *)
(* the border.  The weights are kept exact here and the blend is rounded   *)
(* to the nearest integer.  With dh = sh and dw = sw every fractional part *)
(* is 0 and the result is the source.                                      *)
(***************************************************************************)
Bilinear(img, sh, sw, dh, dw, r, c) ==
    LET ny == (2 * r + 1) * sh - dh
        dy == 2 * dh
        nx == (2 * c + 1) * sw - dw
        dx == 2 * dw
        y0 == IF ny < 0 THEN 0 ELSE Min(ny \div dy, sh - 1)
        x0 == IF nx < 0 THEN 0 ELSE Min(nx \div dx, sw - 1)
        fy == IF ny < 0 \/ ny \div dy >= sh - 1 THEN 0 ELSE ny % dy
        fx == IF nx < 0 \/ nx \div dx >= sw - 1 THEN 0 ELSE nx % dx
        y1 == Min(y0 + 1, sh - 1)
        x1 == Min(x0 + 1, sw - 1)
        num == (dy - fy) * ((dx - fx) * img[y0][x0] + fx * img[y0][x1])
                 + fy * ((dx - fx) * img[y1][x0] + fx * img[y1][x1])
    IN  (2 * num + dy * dx) \div (2 * dy * dx)

\* image[y1:y2, x1:x2] of the frame a crop is a view of; the source frames
\* hold their own pixels throughout.
CropRows(coords) == PySlice(FrameH, coords[1], coords[2])
CropCols(coords) == PySlice(FrameW, coords[3], coords[4])
CropPixel(face, r, c) ==
    SrcPixel(heap[face.of].base,
             CropRows(face.coords)[1] + r, CropCols(face.coords)[1] + c)

\* face = cv2.resize(face, (img_size, img_size)).
CropImage(face) ==
    [r \in 0..(SliceLen(CropRows(face.coords)) - 1) |->
        [c \in 0..(SliceLen(CropCols(face.coords)) - 1) |->
            CropPixel(face, r, c)]]

FacePixel(face, u, v) ==
    Bilinear(CropImage(face),
             SliceLen(CropRows(face.coords)), SliceLen(CropCols(face.coords)),
             img_size, img_size, u, v)

\* img_batch / 255.0, as a fraction, and pred * 255.0 cast to uint8, which
\* truncates and wraps.
Normalize(x) == <<x, 255>>

\* img_masked = img_batch.copy(); img_masked[:, img_size // 2:] = 0.
MaskedPixel(face, u, v) ==
    IF u >= img_size \div 2 THEN 0 ELSE FacePixel(face, u, v)

\* Variant: the mask is written to img_batch itself, not to a copy of it.
InputPixelAliased(face, ch, u, v) == Normalize(MaskedPixel(face, u, v))
\* Channel ch (0 .. 5) of the model input made for a face at (u, v):
\* np.concatenate((img_masked, img_batch), axis=3) / 255.0.
InputPixel(face, ch, u, v) ==
    IF ch < 3 THEN Normalize(MaskedPixel(face, u, v))
    ELSE Normalize(FacePixel(face, u, v))

\* Variant: the prediction is cast without the factor 255.0.
ToUint8Unscaled(q) == TruncDiv(q[1], q[2]) % 256
ToUint8(q) == TruncDiv(q[1] * 255, q[2]) % 256

\* What the model returns for an item at pixel (u, v): the unmasked face
\* it was given, or black.
ModelPixel(w, u, v) ==
    IF w.out = "identity" THEN Normalize(FacePixel(w.face, u, v)) ELSE <<0, 255>>

\* cv2.resize(pred.astype(np.uint8), (x2 - x1, y2 - y1)).
PredImage(w) ==
    [u \in 0..(img_size - 1) |->
        [v \in 0..(img_size - 1) |-> ToUint8(ModelPixel(w, u, v))]]

PastedPixel(w, r, c) ==
    Bilinear(PredImage(w), img_size, img_size,
             w.coords[2] - w.coords[1], w.coords[4] - w.coords[3], r, c)

\* Variant: the write lands one row lower.
CoversLower(w, r, c) ==
    /\ CropRows(w.coords)[1] <= r - 1 /\ r - 1 < CropRows(w.coords)[2]
    /\ CropCols(w.coords)[1] <= c /\ c < CropCols(w.coords)[2]
\* frame[y1:y2, x1:x2] = pred reaches the rows and columns of the slices.
Covers(w, r, c) ==
    /\ CropRows(w.coords)[1] <= r /\ r < CropRows(w.coords)[2]
    /\ CropCols(w.coords)[1] <= c /\ c < CropCols(w.coords)[2]

\* Pixel (r, c) of an array after its first n writes.
RECURSIVE PixelAfter(_, _, _, _)
PixelAfter(a, n, r, c) ==
    IF n = 0 THEN SrcPixel(a.base, r, c)
    ELSE IF Covers(a.writes[n], r, c)
    THEN PastedPixel(a.writes[n], r - CropRows(a.writes[n].coords)[1],
                     c - CropCols(a.writes[n].coords)[1])
    ELSE PixelAfter(a, n - 1, r, c)

Pixel(a, r, c) == PixelAfter(a, Len(a.writes), r, c)

(***************************************************************************)
(* The clip: make_frame = lambda t: frames_list[int(t * self.fps)] with    *)
(* duration = len(frames_list) / self.fps, both in IEEE doubles.  A time   *)
(* <<k, 0>> is the double k / fps and <<k, 1>> the largest double below    *)
(* it.  The product t * fps is rounded to a double before int() truncates  *)
(* it: ProductRoundsUp lists the k for which the product of the double     *)
(* below k / fps with fps is rounded to k, and ProductFallsShort the k for *)
(* which the product of the double k / fps with fps is below k (k up to    *)
(* 48, from Python floats).                                                *)
(***************************************************************************)
ProductRoundsUp(f) ==
    IF f = <<25, 1>> THEN {5, 10, 17, 20, 23, 34, 40, 46}
    ELSE IF f = <<24, 1>> THEN {5, 10, 17, 20, 23, 34, 37, 40, 43, 46}
    ELSE IF f = <<30, 1>> THEN {23, 46}
    ELSE IF f = <<5, 1>> THEN {9, 18, 36, 37}
    ELSE IF f = <<100, 1>> THEN {5, 10, 17, 20, 23, 34, 40, 46}
    ELSE IF f = <<77, 1>> THEN {}
    ELSE IF f = <<25, 2>> THEN {5, 10, 17, 20, 23, 34, 40, 46}
    ELSE IF f = <<30000, 1001>> THEN {3, 6, 12, 24, 48}
    ELSE {}

ProductFallsShort(f) ==
    IF f = <<25, 1>> THEN {29}
    ELSE IF f = <<24, 1>> THEN {}
    ELSE IF f = <<30, 1>> THEN {}
    ELSE IF f = <<5, 1>> THEN {}
    ELSE IF f = <<100, 1>> THEN {29}
    ELSE IF f = <<77, 1>> THEN {5, 10, 20, 39, 40}
    ELSE IF f = <<25, 2>> THEN {29}
    ELSE IF f = <<30000, 1001>> THEN {}
    ELSE {}

Times(n) == {t \in (0..n) \X {0, 1} : t # <<0, 1>>}

\* t < duration, duration being the double n / fps.
BeforeEnd(t, n) == t[1] < n \/ (t[1] = n /\ t[2] = 1)

\* int(t * self.fps).
AccessorIndex(t) ==
    IF t[2] = 0
    THEN IF t[1] \in ProductFallsShort(fps) THEN t[1] - 1 ELSE t[1]
    ELSE IF t[1] \in ProductRoundsUp(fps) THEN t[1] ELSE t[1] - 1

MakeFrame(t) ==
    /\ pc = "returned"
    /\ clip # NoClip
    /\ Len(clip.frames) <= MaxSampled
    /\ t \in Times(Len(clip.frames))
    /\ BeforeEnd(t, Len(clip.frames))
    /\ sampled' = [t |-> t, index |-> AccessorIndex(t),
                   frame |-> IF AccessorIndex(t) < Len(clip.frames)
                             THEN clip.frames[AccessorIndex(t) + 1]
                             ELSE "IndexError"]
    /\ UNCHANGED <<chatVars, cfgVars, faulty_frame, pc, entry, error, alignVars, detVars,
                   boxVars, frames, next_mel, batch, yielded, heap, frames_list,
                   clip, model_calls, earlier_oom>>

(***************************************************************************)
(* The caller is done with what the call returned or raised: the locals of *)
(* the call are gone, and the same object (the module-level aag) serves    *)
(* the next request.                                                       *)
(***************************************************************************)
Release ==
    /\ pc = "returned"
    /\ pc' = "idle"
    /\ entry' = "none"
    /\ error' = "none"
    /\ mel_len' = 0 /\ i_mel' = 0 /\ mel_chunks' = <<>>
    /\ frames' = <<>>
    /\ images' = <<>> /\ batch_size' = 0 /\ pos' = 0 /\ predictions' = <<>>
    /\ clamped' = <<>> /\ windows' = <<>> /\ results' = <<>>
    /\ next_mel' = 0 /\ batch' = <<>> /\ frames_list' = <<>> /\ clip' = NoClip
    /\ yielded' = <<>> /\ heap' = <<>> /\ sampled' = NoSample
    /\ attempts' = <<>> /\ ooms' = <<>> /\ discarded' = 0 /\ model_calls' = 0
    /\ earlier_oom' = (earlier_oom \/ ooms # <<>>)
    /\ UNCHANGED <<chatVars, cfgVars, faulty_frame>>

(***************************************************************************)
(* Initial states: the object as __init__ leaves it, with the attributes a *)
(* caller may assign (fps, static, nosmooth, wav2lip_batch_size) drawn     *)
(* from the given sets; InitSized draws img_size as well.                  *)
(***************************************************************************)
InitPipeline(B, F, S, NS, C, Z) ==
    /\ face_det_batch_size \in B
    /\ img_size \in Z
    /\ fps \in F
    /\ static \in S
    /\ nosmooth \in NS
    /\ wav2lip_batch_size \in C
    /\ faulty_frame = -1
    /\ pc = "idle"
    /\ entry = "none"
    /\ error = "none"
    /\ mel_len = 0 /\ i_mel = 0 /\ mel_chunks = <<>>
    /\ frames = <<>>
    /\ images = <<>> /\ batch_size = 0 /\ pos = 0 /\ predictions = <<>>
    /\ clamped = <<>> /\ windows = <<>> /\ results = <<>>
    /\ next_mel = 0 /\ batch = <<>> /\ frames_list = <<>> /\ clip = NoClip
    /\ yielded = <<>> /\ heap = <<>> /\ sampled = NoSample
    /\ attempts = <<>> /\ ooms = <<>> /\ discarded = 0 /\ model_calls = 0
    /\ earlier_oom = FALSE

\* No chat is stored and archive_chat is not running.
InitBatch(B, F, S, NS, C, Z) ==
    /\ InitPipeline(B, F, S, NS, C, Z)
    /\ chats = <<>> /\ stack = <<>> /\ archive_call = NoCall

InitSized(F, S, NS, C, Z) == InitBatch({DefaultFaceDetBatchSize}, F, S, NS, C, Z)

InitWith(F, S, NS, C) == InitSized(F, S, NS, C, {DefaultImgSize})

FaceA == <<1, 2, 4, 5>>
FaceB == <<2, 3, 6, 8>>
FaceEdge == <<-3, -2, 2, 3>>
FaceOutside == <<9, 1, 11, 3>>
FaceBehind == <<-9, -30, -2, -15>>
FaceSquare == <<1, 14, 7, 16>>

SeqsUpTo(S, n) == UNION {[1..m -> S] : m \in 0..n}
ConstSeqs(x, n) == {[j \in 1..m |-> x] : m \in 1..n}

Step ==
    \/ AlignerStep
    \/ GenStart
    \/ DetectChunk
    \/ DetectOOM
    \/ ComputeBoxes
    \/ DatagenNext
    \/ \E out \in ModelOutputs : InferOk(out)
    \/ InferFail
    \/ Release

(***************************************************************************)
(* Spec: every entry point, small inputs.                                  *)
(***************************************************************************)
Init == InitWith({<<25, 1>>}, BOOLEAN, BOOLEAN, {2, DefaultWav2LipBatchSize})

Next ==
    \/ \E T \in (mel_step_size - 2)..MaxMel,
          face \in {FaceA, FaceEdge, FaceOutside, None} : GenerateAvatar(T, face)
    \/ \E imgs \in SeqsUpTo({FaceA, FaceOutside, None}, MaxFrames) :
          FaceDetectCall(imgs)
    \/ Step

Spec == Init /\ [][Next]_vars

(***************************************************************************)
(* SpecAvatar: generate_avatar over the feature-map lengths and frame      *)
(* rates, configuration as constructed apart from fps.                     *)
(***************************************************************************)
FpsSet == {<<25, 1>>, <<24, 1>>, <<30, 1>>, <<5, 1>>, <<100, 1>>, <<77, 1>>,
           <<25, 2>>, <<30000, 1001>>}

InitAvatar == InitWith(FpsSet, {TRUE}, {FALSE}, {DefaultWav2LipBatchSize})

NextAvatar ==
    \/ \E T \in (0..MaxT) \cup {95, 200}, face \in {FaceA} : GenerateAvatar(T, face)
    \/ Step

SpecAvatar == InitAvatar /\ [][NextAvatar]_vars

\* The aligner loop is straight-line code of the thread that called
\* generate_avatar: once entered, its next iteration is eventually run.
SpecAvatarFair == SpecAvatar /\ WF_vars(AlignerStep)

(***************************************************************************)
(* SpecBoxes: face_detect over sequences of detected frames long enough    *)
(* for the smoothing window to slide and to reach the tail.                *)
(***************************************************************************)
InitBoxes == InitWith({<<25, 1>>}, {TRUE}, BOOLEAN, {DefaultWav2LipBatchSize})

NextBoxes ==
    \/ \E imgs \in SeqsUpTo({FaceA, FaceB}, MaxBoxFrames)
                       \cup ConstSeqs(FaceBehind, MaxBoxFrames) :
          FaceDetectCall(imgs)
    \/ DetectChunk
    \/ DetectOOM
    \/ ComputeBoxes
    \/ Release

SpecBoxes == InitBoxes /\ [][NextBoxes]_vars

(***************************************************************************)
(* SpecDatagen: datagen called with up to MaxFrames frames and up to       *)
(* MaxItems feature windows at the capacities 1 .. MaxCap, in static and   *)
(* in cycling mode; the detector answers every batch.                      *)
(***************************************************************************)
InitDatagen == InitWith({<<25, 1>>}, BOOLEAN, BOOLEAN, 1..MaxCap)

NextDatagen ==
    \/ \E fr \in SeqsUpTo({FaceA, FaceB, FaceOutside}, MaxFrames),
          n \in 0..MaxItems : DatagenCall(fr, n)
    \/ GenStart
    \/ DetectChunk
    \/ ComputeBoxes
    \/ DatagenNext
    \/ Release

SpecDatagen == InitDatagen /\ [][NextDatagen]_vars

(***************************************************************************)
(* SpecComposite: generate_avatar with a model that answers every batch,   *)
(* at the image size of the constructor and at a small one that a detected *)
(* box can have.                                                           *)
(***************************************************************************)
InitComposite ==
    InitSized({<<25, 1>>}, BOOLEAN, {FALSE}, {2, DefaultWav2LipBatchSize},
              {6, DefaultImgSize})

NextComposite ==
    \/ \E T \in mel_step_size..MaxMel, face \in {FaceA, FaceEdge, FaceSquare} :
          GenerateAvatar(T, face)
    \/ AlignerStep
    \/ GenStart
    \/ DetectChunk
    \/ ComputeBoxes
    \/ DatagenNext
    \/ \E out \in ModelOutputs : InferOk(out)
    \/ Release

SpecComposite == InitComposite /\ [][NextComposite]_vars

(***************************************************************************)
(* SpecClip: generate_avatar at the frame rates of FpsSet, and the clip it *)
(* returns sampled at the frame times and just before them.                *)
(***************************************************************************)
InitClip == InitWith(FpsSet, {TRUE}, {FALSE}, {DefaultWav2LipBatchSize})

NextClip ==
    \/ \E T \in mel_step_size..MaxClipT, face \in {FaceA} :
          GenerateAvatar(T, face)
    \/ AlignerStep
    \/ GenStart
    \/ DetectChunk
    \/ ComputeBoxes
    \/ DatagenNext
    \/ \E out \in {"identity"} : InferOk(out)
    \/ \E t \in (0..MaxSampled) \X {0, 1} : MakeFrame(t)
    \/ Release

SpecClip == InitClip /\ [][NextClip]_vars

(***************************************************************************)
(* ChatService.archive_chat over the chat collection.  A stored document   *)
(* is [status, children_ids]; ids are 1 .. MaxChats, MaxChats + 1 is an id *)
(* that is not stored.  A frame of stack is one running archive_chat(id):  *)
(* entered, or in its loop over the children_ids it read, at child k.      *)
(***************************************************************************)
ChatIds == 1..MaxChats
NotStored == MaxChats + 1

Statuses == {"ACTIVATING", "ARCHIVED"}

\* ChatUpdate(status=Status.ARCHIVED).model_dump(exclude_unset=True): the
\* fields that were set, and no other.
ArchiveUpdateData == [status |-> "ARCHIVED"]

SortedSeq(S) ==
    CHOOSE q \in [1..Cardinality(S) -> S] :
        \A a, b \in 1..Cardinality(S) : a < b => q[a] < q[b]

\* ChatRepo.find_by_id finds a document.
Stored(store, id) == id \in DOMAIN store

\* Variant: the update replaces the stored document by the data.
ChatRepoReplace(store, id, data) ==
    [store EXCEPT ![id] =
        [f \in DOMAIN @ |-> IF f \in DOMAIN data THEN data[f] ELSE <<>>]]
\* ChatRepo.update: update_one({"_id": id}, {"$set": data}) on a stored id.
ChatRepoUpdate(store, id, data) ==
    [store EXCEPT ![id] =
        [f \in DOMAIN @ |-> IF f \in DOMAIN data THEN data[f] ELSE @[f]]]

ArchiveChatCall(id) ==
    /\ pc = "idle"
    /\ entry' = "archive_chat"
    /\ error' = "none"
    /\ pc' = "archive"
    /\ stack' = <<[id |-> id, at |-> "enter", children_ids |-> <<>>, k |-> 0]>>
    /\ archive_call' = [id |-> id, before |-> chats]
    /\ UNCHANGED <<chats, cfgVars, faulty_frame, alignVars, detVars, boxVars,
                   genVars, earlier_oom>>

\* find_by_id, the assignment to the object read and repo.update.
ArchiveVisit ==
    /\ pc = "archive"
    /\ stack # <<>>
    /\ LET top == stack[Len(stack)]
       IN  /\ top.at = "enter"
           /\ IF ~Stored(chats, top.id)
              THEN /\ error' = "IdNotFoundError"
                   /\ pc' = "returned"
                   /\ stack' = <<>>
                   /\ UNCHANGED chats
              ELSE /\ chats' = ChatRepoUpdate(chats, top.id, ArchiveUpdateData)
                   /\ stack' = [stack EXCEPT ![Len(stack)] =
                                   [id |-> top.id, at |-> "loop",
                                    children_ids |-> chats[top.id].children_ids,
                                    k |-> 1]]
                   /\ UNCHANGED <<error, pc>>
    /\ UNCHANGED <<archive_call, cfgVars, faulty_frame, entry, alignVars,
                   detVars, boxVars, genVars, earlier_oom>>

\* Variant: the loop stops before the last child.
ArchiveNextSkipsLast ==
    /\ pc = "archive"
    /\ stack # <<>>
    /\ LET top == stack[Len(stack)]
       IN  /\ top.at = "loop"
           /\ IF top.k < Len(top.children_ids)
              THEN /\ stack' = Append([stack EXCEPT ![Len(stack)].k = top.k + 1],
                                      [id |-> top.children_ids[top.k],
                                       at |-> "enter", children_ids |-> <<>>,
                                       k |-> 0])
                   /\ UNCHANGED pc
              ELSE /\ stack' = SubSeq(stack, 1, Len(stack) - 1)
                   /\ pc' = IF Len(stack) = 1 THEN "returned" ELSE pc
    /\ UNCHANGED <<chats, archive_call, cfgVars, faulty_frame, entry, error,
                   alignVars, detVars, boxVars, genVars, earlier_oom>>

\* for child_id in chat_in_db.children_ids: self.archive_chat(child_id); the
\* call returns when the list is done.
ArchiveNext ==
    /\ pc = "archive"
    /\ stack # <<>>
    /\ LET top == stack[Len(stack)]
       IN  /\ top.at = "loop"
           /\ IF top.k <= Len(top.children_ids)
              THEN /\ stack' = Append([stack EXCEPT ![Len(stack)].k = top.k + 1],
                                      [id |-> top.children_ids[top.k],
                                       at |-> "enter", children_ids |-> <<>>,
                                       k |-> 0])
                   /\ UNCHANGED pc
              ELSE /\ stack' = SubSeq(stack, 1, Len(stack) - 1)
                   /\ pc' = IF Len(stack) = 1 THEN "returned" ELSE pc
    /\ UNCHANGED <<chats, archive_call, cfgVars, faulty_frame, entry, error,
                   alignVars, detVars, boxVars, genVars, earlier_oom>>

(***************************************************************************)
(* SpecChat: archive_chat on every collection of MaxChats chats whose      *)
(* children_ids are acyclic (a child has a larger id than its parent), an  *)
(* id that is not stored among the children included.                      *)
(***************************************************************************)
InitChat ==
    /\ InitPipeline({DefaultFaceDetBatchSize}, {<<25, 1>>}, {TRUE}, {FALSE},
                    {DefaultWav2LipBatchSize}, {DefaultImgSize})
    /\ \E st \in [ChatIds -> Statuses],
          ch \in [ChatIds -> SUBSET (2..NotStored)] :
          /\ \A i \in ChatIds : \A c \in ch[i] : c > i
          /\ chats = [i \in ChatIds |->
                         [status |-> st[i], children_ids |-> SortedSeq(ch[i])]]
    /\ stack = <<>>
    /\ archive_call = NoCall

NextChat ==
    \/ \E id \in ChatIds \cup {NotStored} : ArchiveChatCall(id)
    \/ ArchiveVisit
    \/ ArchiveNext
    \/ Release

SpecChat == InitChat /\ [][NextChat]_vars

(***************************************************************************)
(* SpecRetry: face_detect constructed with every batch size 1 .. MaxBatch,  *)
(* each chunk of each pass either detected or refused by the detector.     *)
(***************************************************************************)
BatchSizes == 1..MaxBatch

InitRetry ==
    InitBatch(BatchSizes, {<<25, 1>>}, {TRUE}, {TRUE}, {DefaultWav2LipBatchSize},
              {DefaultImgSize})

NextRetry ==
    \/ \E imgs \in SeqsUpTo({FaceA, None}, MaxFrames) : FaceDetectCall(imgs)
    \/ DetectChunk
    \/ DetectOOM
    \/ ComputeBoxes
    \/ Release

SpecRetry == InitRetry /\ [][NextRetry]_vars

\* face_detect is straight-line code of one thread: a pass that has begun
\* goes on to its next chunk, to the except clause or to the break.
SpecRetryFair == SpecRetry /\ WF_vars(DetectChunk \/ DetectOOM \/ ComputeBoxes)

(***************************************************************************)
(* Properties.                                                             *)
(***************************************************************************)
AlignerDone == entry = "generate_avatar" /\ pc \notin {"idle", "align"}

ExactStartIdx ==
    \A k \in 0..(Len(mel_chunks) - 1) : k \notin DoubleShortfall(fps)

\* C1 (as amended): once the aligner loop has ended on a feature map of
\* T >= window_width columns, it has emitted
\* ceil((T - window_width + 1) * fps / feature_rate) + 1 windows, at every
\* frame rate whose start indices int(i * (80.0 / fps)) equal floor(i*80/fps).
C1_WindowCount ==
    (AlignerDone /\ mel_len >= mel_step_size /\ ExactStartIdx) =>
        Len(mel_chunks) =
            CeilDiv((mel_len - mel_step_size + 1) * fps[1],
                    FeatureRate * fps[2]) + 1

\* C1 as stated: the count is ceil((T - window_width) * fps / feature_rate) + 1.
C1_WindowCountAsStated ==
    (AlignerDone /\ mel_len >= mel_step_size) =>
        Len(mel_chunks) =
            CeilDiv((mel_len - mel_step_size) * fps[1],
                    FeatureRate * fps[2]) + 1

C1_Witness ==
    /\ AlignerDone
    /\ mel_len = mel_step_size
    /\ fps = <<25, 1>>
    /\ Len(mel_chunks) = 2

\* C2 (as amended): at 25 fps a feature map of 200 columns gives 58 full
\* windows and one final window over columns [184, 200), 59 in all; the
\* returned clip holds 59 frames and lasts 59/25 seconds.
C2_EndToEnd ==
    (entry = "generate_avatar" /\ mel_len = 200 /\ fps = <<25, 1>>) =>
        /\ AlignerDone =>
              /\ Len(mel_chunks) = 59
              /\ i_mel = 58
              /\ mel_chunks[59] = <<184, 200>>
              /\ mel_chunks[58] = <<182, 198>>
        /\ clip # NoClip =>
              /\ Len(clip.frames) = 59
              /\ clip.duration[1] * 25 = 59 * clip.duration[2]

\* C2 as stated: 9 full windows and one final window, 10 output frames,
\* a duration of 10/25 seconds.
C2_EndToEndAsStated ==
    (entry = "generate_avatar" /\ mel_len = 200 /\ fps = <<25, 1>>) =>
        /\ AlignerDone => (Len(mel_chunks) = 10 /\ i_mel = 9)
        /\ clip # NoClip =>
              /\ Len(clip.frames) = 10
              /\ clip.duration[1] * 25 = 10 * clip.duration[2]

C2_Witness ==
    /\ entry = "generate_avatar"
    /\ mel_len = 200
    /\ fps = <<25, 1>>
    /\ clip # NoClip
    /\ error = "none"

Last(q) == q[Len(q)]

\* The detection loop of this call has ended with a complete pass.
DetectionDone == attempts # <<>> /\ pc # "detect" /\ error # "ImageTooBig"

RECURSIVE HalvingTo(_, _)
HalvingTo(B, k) ==
    IF B <= k \/ B <= 1 THEN <<B>> ELSE <<B>> \o HalvingTo(B \div 2, k)

\* C3: when the detector has raised at every batch size above a threshold k
\* and the pass at the first size <= k has succeeded, the batch sizes
\* attempted are exactly B, B//2, B//4, ... down to that first size <= k,
\* and nothing smaller (B = 64).
C3_HalvingStopsAtFirstSuccess ==
    \A k \in 1..DefaultFaceDetBatchSize :
        ( /\ DetectionDone
          /\ \A j \in 1..Len(ooms) : ooms[j] > k
          /\ Last(attempts) <= k ) =>
            attempts = HalvingTo(DefaultFaceDetBatchSize, k)

C3_Witness ==
    /\ DetectionDone
    /\ ooms = <<64, 32, 16>>
    /\ attempts = <<64, 32, 16, 8>>
    /\ error = "none"

\* C4: the predictions held are those of the current pass alone, one per
\* frame from frame 0 on in frame order, each produced with the current
\* batch size; the list used for the boxes has one entry per input frame.
C4_FailedPassDiscarded ==
    attempts # <<>> =>
        /\ batch_size = Last(attempts)
        /\ Len(predictions) = Min(pos, Len(images))
        /\ \A j \in 1..Len(predictions) :
              /\ predictions[j].frame = j - 1
              /\ predictions[j].bs = batch_size
              /\ predictions[j].rect = images[j]
        /\ DetectionDone => Len(predictions) = Len(images)
        /\ Len(results) \in {0, Len(images)}

C4_Witness ==
    /\ discarded > 0
    /\ DetectionDone
    /\ error = "none"
    /\ Len(results) = Len(images)
    /\ Len(images) = MaxFrames

\* C5: the fatal error is raised exactly when the detector fails at batch
\* size 1; a failure at a larger size is followed by a pass at half that
\* size, and no pass follows the fatal error.
C5_FatalOnlyAtMinimum ==
    /\ (error = "ImageTooBig") <=> (ooms # <<>> /\ Last(ooms) = 1)
    /\ \A j \in 1..Len(ooms) :
          /\ ooms[j] = attempts[j]
          /\ ooms[j] > 1 => (Len(attempts) > j /\ attempts[j + 1] = ooms[j] \div 2)
          /\ ooms[j] >= 1
    /\ error = "ImageTooBig" => (pc = "returned" /\ Len(attempts) = Len(ooms))
    /\ (attempts # <<>> /\ error # "ImageTooBig") => Len(attempts) = Len(ooms) + 1

C5_Witness ==
    /\ error = "ImageTooBig"
    /\ ooms = <<64, 32, 16, 8, 4, 2, 1>>

\* C6: the configured batch size is 64 in every state, and every call of
\* face_detect makes its first pass with it, whatever earlier calls did.
C6_DefaultBatchSizeEveryRun ==
    /\ face_det_batch_size = DefaultFaceDetBatchSize
    /\ attempts # <<>> => attempts[1] = DefaultFaceDetBatchSize

C6_Witness ==
    /\ earlier_oom
    /\ pc = "detect"
    /\ attempts = <<DefaultFaceDetBatchSize>>

\* C7: when the completed pass holds a frame without a face, the call ends
\* with the face-not-detected error, the frame written out is the first such
\* frame, no further pass is made, nothing is returned, the model has not
\* been called and no output exists.
C7_FaceNotDetectedIsFatal ==
    /\ (DetectionDone /\ NoFace(predictions) # {}) =>
          /\ error = "FaceNotDetected"
          /\ pc = "returned"
          /\ faulty_frame + 1 \in NoFace(predictions)
          /\ \A j \in NoFace(predictions) : faulty_frame <= j - 1
          /\ Len(attempts) = Len(ooms) + 1
          /\ results = <<>>
          /\ model_calls = 0
          /\ batch = <<>>
          /\ frames_list = <<>>
          /\ clip = NoClip
    /\ error = "FaceNotDetected" => NoFace(predictions) # {}

C7_Witness ==
    /\ error = "FaceNotDetected"
    /\ Len(images) = 3
    /\ NoFace(predictions) = {2, 3}
    /\ faulty_frame = 1

\* C8 as stated: every box face_detect returns lies within the frame and
\* is not empty.
C8_BoxWithinFrame ==
    \A j \in 1..Len(results) :
        LET y1 == results[j].coords[1]
            y2 == results[j].coords[2]
            x1 == results[j].coords[3]
            x2 == results[j].coords[4]
        IN  /\ 0 <= x1 /\ x1 < x2 /\ x2 <= FrameW
            /\ 0 <= y1 /\ y1 < y2 /\ y2 <= FrameH

\* Box j as face_detect returned it, as <<x1, y1, x2, y2>>.
ReturnedBox(j) ==
    <<results[j].coords[3], results[j].coords[1],
      results[j].coords[4], results[j].coords[2]>>

Smoothed == ~nosmooth /\ DetectionDone /\ error = "none" /\ windows # <<>>

RECURSIVE SeqSum(_)
SeqSum(q) == IF q = <<>> THEN 0 ELSE q[1] + SeqSum(Tail(q))

\* C9 as stated: the window of index i is boxes[i .. i+T-1] when i + T <= N,
\* and otherwise the last T boxes (all N boxes when N < T), with T = 5.
C9_WindowIsLastT ==
    Smoothed =>
        \A j \in 1..Len(windows) :
            LET n == Len(windows)
                k == j - 1
            IN  windows[j] = IF k + 5 <= n THEN <<k, k + 5>>
                             ELSE <<Max(n - 5, 0), n>>

\* The array as index j of the smoothing loop reads it: entries below j
\* already hold their smoothed values, the others the unsmoothed boxes.
ReadAt(j, m) == IF m < j THEN ReturnedBox(m) ELSE clamped[m]

WindowSum(j, c) ==
    SeqSum([m \in 1..(windows[j][2] - windows[j][1]) |->
               ReadAt(j, windows[j][1] + m)[c]])

UnsmoothedWindowSum(j, c) ==
    SeqSum([m \in 1..(windows[j][2] - windows[j][1]) |->
               clamped[windows[j][1] + m][c]])

\* C10 (as amended): each coordinate of smoothed box i is the mean of that
\* coordinate over the entries of its window as the array stands when index
\* i is processed (entries of lower indices already smoothed), truncated
\* toward zero.
C10_SmoothedIsTruncatedMean ==
    Smoothed =>
        \A j \in 1..Len(results) : \A c \in 1..4 :
            LET n == windows[j][2] - windows[j][1]
                sum == WindowSum(j, c)
                r == ReturnedBox(j)[c]
            IN  /\ n > 0
                /\ sum >= 0 => (r * n <= sum /\ sum < (r + 1) * n)
                /\ sum < 0 => (sum <= r * n /\ (r - 1) * n < sum)

\* C10 as stated: each coordinate of smoothed box i is an integer nearest to
\* the mean of that coordinate over the detector boxes of its window.
C10_SmoothedIsNearestMean ==
    Smoothed =>
        \A j \in 1..Len(results) : \A c \in 1..4 :
            LET n == windows[j][2] - windows[j][1]
                sum == UnsmoothedWindowSum(j, c)
                r == ReturnedBox(j)[c]
            IN  /\ 2 * (r * n - sum) <= n
                /\ 2 * (sum - r * n) <= n

C10_Witness ==
    /\ Smoothed
    /\ Len(results) = 6
    /\ \E c \in 1..4 : WindowSum(6, c) # UnsmoothedWindowSum(6, c)
    /\ \E c \in 1..4 : WindowSum(1, c) % 5 = 4

Uniform(q) == \A j \in 1..Len(q) : q[j] = q[1]

\* C11: smoothing a sequence of N >= 1 identical boxes returns the same
\* sequence: as many boxes, each equal to the box put in, for N below the
\* window size as well and for boxes with negative coordinates.
C11_UniformUnchanged ==
    (Smoothed /\ Uniform(clamped)) =>
        /\ Len(results) = Len(clamped)
        /\ \A j \in 1..Len(results) : ReturnedBox(j) = clamped[j]

C11_Witness ==
    /\ Smoothed
    /\ Uniform(clamped)
    /\ Len(clamped) = 3
    /\ clamped[1][3] < 0
    /\ ReturnedBox(3) = clamped[3]

\* The generator has run to its end: every batch was taken and the next
\* resumption found no mel left.
GeneratorExhausted ==
    /\ entry \in {"datagen", "generate_avatar"}
    /\ pc = "returned"
    /\ error = "none"

BatchLen(b) == Len(b.img_batch)

ItemsYielded == SeqSum([j \in 1..Len(yielded) |-> BatchLen(yielded[j])])

\* C12: the batches datagen has yielded never hold more items than there
\* are feature windows, and when the generator has run to its end they hold
\* exactly as many items as there are feature windows, for every number of
\* source frames and every capacity.
C12_ItemsEqualWindows ==
    /\ ItemsYielded <= Len(mel_chunks)
    /\ GeneratorExhausted => ItemsYielded = Len(mel_chunks)

C12_Witness ==
    /\ GeneratorExhausted
    /\ entry = "datagen"
    /\ Len(frames) = 2
    /\ wav2lip_batch_size = 2
    /\ Len(mel_chunks) = 5
    /\ Len(yielded) = 3
    /\ ItemsYielded = 5

RECURSIVE Concat(_)
Concat(qs) == IF qs = <<>> THEN <<>> ELSE qs[1] \o Concat(Tail(qs))

\* The four lists of all batches yielded so far, in the order yielded.
AllImgs == Concat([j \in 1..Len(yielded) |-> yielded[j].img_batch])
AllMels == Concat([j \in 1..Len(yielded) |-> yielded[j].mel_batch])
AllFrames == Concat([j \in 1..Len(yielded) |-> yielded[j].frame_batch])
AllCoords == Concat([j \in 1..Len(yielded) |-> yielded[j].coords_batch])

ExpectedIdx(i) == IF static THEN 0 ELSE i % Len(frames)

\* C13: for the item of feature window i, the frame copy holds the pixels
\* of source frame idx(i), the crop is cut from source frame idx(i) at the
\* coordinates detected for frame idx(i), where idx(i) = 0 in static mode and
\* i mod len(frames) otherwise, and idx(i) is an index of the frame list and
\* of the detection results.
C13_SameSourceFrame ==
    entry \in {"datagen", "generate_avatar"} =>
        \A p \in 1..Len(AllMels) :
            LET idx == ExpectedIdx(AllMels[p])
            IN  /\ 0 <= idx /\ idx < Len(frames) /\ idx < Len(results)
                /\ heap[AllFrames[p]].base = idx
                /\ heap[AllFrames[p]].made_for = AllMels[p]
                /\ AllImgs[p].of = FrameRef(idx)
                /\ heap[AllImgs[p].of].base = idx
                /\ results[idx + 1].frame = idx
                /\ AllImgs[p].coords = results[idx + 1].coords
                /\ AllCoords[p] = results[idx + 1].coords

C13_Witness ==
    /\ GeneratorExhausted
    /\ entry = "datagen"
    /\ ~static
    /\ Len(frames) = 2
    /\ frames[1] # frames[2]
    /\ Len(AllMels) = 5
    /\ heap[AllFrames[5]].base = 0
    /\ heap[AllFrames[4]].base = 1

\* C14: with N feature windows and capacity C >= 1, every batch yielded
\* holds between 1 and C items in each of its four lists, every batch that
\* another batch follows holds exactly C, and a generator run to its end has
\* yielded exactly ceil(N / C) batches, all but the last of C items.
C14_BatchSizes ==
    /\ \A j \in 1..Len(yielded) :
          /\ BatchLen(yielded[j]) >= 1
          /\ BatchLen(yielded[j]) <= wav2lip_batch_size
          /\ j < Len(yielded) => BatchLen(yielded[j]) = wav2lip_batch_size
          /\ Len(yielded[j].mel_batch) = BatchLen(yielded[j])
          /\ Len(yielded[j].frame_batch) = BatchLen(yielded[j])
          /\ Len(yielded[j].coords_batch) = BatchLen(yielded[j])
    /\ GeneratorExhausted =>
          Len(yielded) = CeilDiv(Len(mel_chunks), wav2lip_batch_size)

C14_Witness ==
    /\ GeneratorExhausted
    /\ entry = "datagen"
    /\ wav2lip_batch_size = 3
    /\ Len(mel_chunks) = 6
    /\ Len(yielded) = 2
    /\ BatchLen(yielded[2]) = 3

\* C15: the batches yielded so far, concatenated in yield order, hold the
\* items of feature windows 0, 1, 2, ... in that order, each once, and all
\* N of them when the generator has run to its end; at each position the
\* image, the feature window, the frame copy and the coordinates are those
\* of the same item.
C15_OrderPreserved ==
    entry \in {"datagen", "generate_avatar"} =>
        /\ Len(AllImgs) = Len(AllMels)
        /\ Len(AllFrames) = Len(AllMels)
        /\ Len(AllCoords) = Len(AllMels)
        /\ Len(AllMels) = next_mel
        /\ \A p \in 1..Len(AllMels) :
              /\ AllMels[p] = p - 1
              /\ heap[AllFrames[p]].made_for = p - 1
              /\ AllImgs[p] = [of |-> FrameRef(ExpectedIdx(p - 1)),
                               coords |-> results[ExpectedIdx(p - 1) + 1].coords]
              /\ AllCoords[p] = results[ExpectedIdx(p - 1) + 1].coords
              /\ \A q \in 1..Len(AllMels) :
                    q # p => AllFrames[q] # AllFrames[p]
        /\ GeneratorExhausted => Len(AllMels) = Len(mel_chunks)

C15_Witness ==
    /\ GeneratorExhausted
    /\ entry = "datagen"
    /\ ~static
    /\ Len(frames) = 3
    /\ wav2lip_batch_size = 2
    /\ AllMels = <<0, 1, 2, 3, 4>>
    /\ Len(yielded) = 3

\* C16: no source frame is ever written: in every state of a call, and so
\* after a complete run, each source array holds its own pixels with no
\* write applied; every output frame is an array of its own, different from
\* every source array and from every other output frame, and holds exactly
\* the one write of its own item.
C16_SourceNeverWritten ==
    entry \in {"datagen", "generate_avatar"} =>
        /\ \A j \in 1..Len(frames) :
              heap[j] = [base |-> j - 1, made_for |-> -1, writes |-> <<>>]
        /\ \A p \in 1..Len(frames_list) :
              /\ frames_list[p] > Len(frames)
              /\ Len(heap[frames_list[p]].writes) = 1
              /\ \A q \in 1..Len(frames_list) :
                    q # p => frames_list[q] # frames_list[p]

C16_Witness ==
    /\ entry = "generate_avatar"
    /\ clip # NoClip
    /\ static
    /\ wav2lip_batch_size = 2
    /\ Len(clip.frames) = 4
    /\ \A p \in 1..4 : heap[clip.frames[p]].base = 0
    /\ heap[1].writes = <<>>

\* The write an output frame carries.
Pasted(p) == Last(heap[frames_list[p]].writes)

InBox(coords, r, c) ==
    /\ coords[1] <= r /\ r < coords[2]
    /\ coords[3] <= c /\ c < coords[4]

\* C17: in every composited frame, whatever the model returned, a pixel at
\* a row outside [y1, y2) or a column outside [x1, x2) of the item's box is
\* the pixel of the source frame, and a pixel inside the box is the pixel
\* of the prediction rescaled to the extent of the box.
C17_OnlyBoxOverwritten ==
    \A p \in 1..Len(frames_list) :
        \A r \in 0..(FrameH - 1), c \in 0..(FrameW - 1) :
            LET w == Pasted(p)
                a == heap[frames_list[p]]
            IN  /\ w.coords = AllCoords[p]
                /\ ~InBox(w.coords, r, c) =>
                      Pixel(a, r, c) = SrcPixel(ExpectedIdx(p - 1), r, c)
                /\ InBox(w.coords, r, c) =>
                      Pixel(a, r, c) =
                          PastedPixel(w, r - w.coords[1], c - w.coords[3])

C17_Witness ==
    /\ clip # NoClip
    /\ Len(frames_list) = 4
    /\ Pasted(1).out = "dark"
    /\ Pasted(4).out = "identity"
    /\ Pasted(1).coords = <<2, 15, 1, 4>>
    /\ SrcPixel(0, 3, 2) = 255
    /\ Pixel(heap[frames_list[1]], 3, 2) = 0
    /\ Pixel(heap[frames_list[1]], 3, 4) = 255
    /\ Pixel(heap[frames_list[1]], 15, 2) = 255

BoxIsImgSize(coords) ==
    /\ coords[2] - coords[1] = img_size
    /\ coords[4] - coords[3] = img_size

\* C18 (as amended): when the model returns for an item the unmasked face
\* it was given and the item's box is img_size x img_size pixels, so that
\* neither resize resamples, every pixel of the composited frame inside the
\* box is the pixel of the source frame.
C18_RoundTripAtImgSize ==
    \A p \in 1..Len(frames_list) :
        (Pasted(p).out = "identity" /\ BoxIsImgSize(Pasted(p).coords)) =>
            \A r \in 0..(FrameH - 1), c \in 0..(FrameW - 1) :
                InBox(Pasted(p).coords, r, c) =>
                    Pixel(heap[frames_list[p]], r, c) =
                        SrcPixel(ExpectedIdx(p - 1), r, c)

\* C18 as stated: when the model returns for an item the unmasked face it
\* was given, every pixel of the composited frame inside the box is the
\* pixel of the source frame.
C18_RoundTripAsStated ==
    \A p \in 1..Len(frames_list) :
        Pasted(p).out = "identity" =>
            \A r \in 0..(FrameH - 1), c \in 0..(FrameW - 1) :
                InBox(Pasted(p).coords, r, c) =>
                    Pixel(heap[frames_list[p]], r, c) =
                        SrcPixel(ExpectedIdx(p - 1), r, c)

C18_Witness ==
    /\ clip # NoClip
    /\ img_size = 6
    /\ Pasted(1).out = "identity"
    /\ Pasted(1).coords = <<14, 20, 1, 7>>
    /\ Pixel(heap[frames_list[1]], 14, 1) = 255
    /\ Pixel(heap[frames_list[1]], 14, 2) = 0

\* C19: the output sequence holds, at each position k, the frame copy made
\* for feature window k with the prediction made from window k and the face
\* of its item pasted at the coordinates of its item, batches in yield order
\* and items in batch order; the clip returned holds this sequence and its
\* length is the number of feature windows, at every capacity.
C19_OutputInWindowOrder ==
    entry = "generate_avatar" =>
        /\ Len(frames_list) <= Len(AllFrames)
        /\ \A p \in 1..Len(frames_list) :
              /\ frames_list[p] = AllFrames[p]
              /\ heap[frames_list[p]].made_for = p - 1
              /\ Len(heap[frames_list[p]].writes) = 1
              /\ Pasted(p).mel = p - 1
              /\ Pasted(p).face = AllImgs[p]
              /\ Pasted(p).coords = AllCoords[p]
        /\ clip # NoClip =>
              /\ clip.frames = frames_list
              /\ Len(clip.frames) = Len(mel_chunks)

C19_Witness ==
    /\ entry = "generate_avatar"
    /\ clip # NoClip
    /\ wav2lip_batch_size = 2
    /\ model_calls = 2
    /\ Len(clip.frames) = 4
    /\ Pasted(1).out # Pasted(3).out
    /\ Pasted(4).mel = 3

\* C20 as stated: the clip's duration is len(sequence) / fps and its
\* sequence is the output sequence; every call of the accessor with a time
\* t, 0 <= t < duration, finds its index in [0, len(sequence)) and returns
\* the frame at that index, and changes nothing.
C20_AccessorInRange ==
    /\ clip # NoClip =>
          /\ clip.frames = frames_list
          /\ clip.duration[1] * fps[1] = Len(clip.frames) * fps[2] * clip.duration[2]
    /\ sampled # NoSample =>
          /\ 0 <= sampled.index
          /\ sampled.index < Len(clip.frames)
          /\ sampled.frame = clip.frames[sampled.index + 1]

\* C21: when the model has raised on a batch, the call has ended with that
\* failure: the model was called once for each batch yielded and not again,
\* the generator was not resumed for a later batch, only the batches before
\* the failed one were composited, and no clip, not even a partial one, is
\* returned; a clip is returned only by a call in which nothing failed.
C21_InferenceFailurePropagates ==
    /\ error = "InferenceFailed" =>
          /\ pc = "returned"
          /\ clip = NoClip
          /\ sampled = NoSample
          /\ model_calls = Len(yielded)
          /\ Len(frames_list) = ItemsYielded - BatchLen(Last(yielded))
    /\ entry = "generate_avatar" => model_calls <= Len(yielded)
    /\ clip # NoClip => error = "none"

C21_Witness ==
    /\ error = "InferenceFailed"
    /\ wav2lip_batch_size = 2
    /\ Len(mel_chunks) = 4
    /\ model_calls = 1
    /\ next_mel = 2
    /\ clip = NoClip

\* C22 as stated: on a feature map of fewer columns than one window the
\* call ends with the fatal invalid-audio-length error; no window is
\* emitted, no batch is built and no output is produced.
C22_ShortAudioIsFatal ==
    (entry = "generate_avatar" /\ mel_len < mel_step_size /\ pc # "align") =>
        /\ error = "InvalidAudioLength"
        /\ mel_chunks = <<>>
        /\ yielded = <<>>
        /\ model_calls = 0
        /\ clip = NoClip

\* C23, with the start index as the code computes it: on a feature map of
\* T >= window_width columns the windows are emitted in index order; window i, for every window but the
\* last, is columns [int(i * (80.0 / fps)), int(i * (80.0 / fps)) + 16), the
\* start index being floor(i * feature_rate / fps) at every frame rate whose
\* double product does not fall short of it; the last window is columns
\* [T - 16, T); exactly one such final window is emitted, when the loop
\* ends; every window is 16 columns wide.
C23_WindowContents ==
    (entry = "generate_avatar" /\ mel_len >= mel_step_size) =>
        /\ Len(mel_chunks) = IF pc = "align" THEN i_mel ELSE i_mel + 1
        /\ \A k \in 1..i_mel :
              /\ mel_chunks[k] = <<StartIdx(k - 1), StartIdx(k - 1) + mel_step_size>>
              /\ ExactStartIdx =>
                    mel_chunks[k][1] = ((k - 1) * FeatureRate * fps[2]) \div fps[1]
              /\ mel_chunks[k][2] <= mel_len
        /\ AlignerDone =>
              /\ Last(mel_chunks) = <<mel_len - mel_step_size, mel_len>>
              /\ StartIdx(i_mel) + mel_step_size > mel_len
        /\ \A k \in 1..Len(mel_chunks) :
              mel_chunks[k][2] - mel_chunks[k][1] = mel_step_size

C23_Witness ==
    /\ entry = "generate_avatar" /\ AlignerDone /\ fps = <<25, 1>> /\ mel_len = 30
    /\ mel_chunks = <<<<0, 16>>, <<3, 19>>, <<6, 22>>, <<9, 25>>, <<12, 28>>,
                      <<14, 30>>>>

\* C23 as stated: the start of window i is floor(i * feature_rate / fps) at
\* every frame rate.
C23_WindowContentsAsStated ==
    (entry = "generate_avatar" /\ mel_len >= mel_step_size) =>
        /\ \A k \in 1..i_mel :
              mel_chunks[k] =
                  <<((k - 1) * FeatureRate * fps[2]) \div fps[1],
                    ((k - 1) * FeatureRate * fps[2]) \div fps[1] + mel_step_size>>
        /\ AlignerDone =>
              Last(mel_chunks) = <<mel_len - mel_step_size, mel_len>>
        /\ \A k \in 1..Len(mel_chunks) :
              mel_chunks[k][2] - mel_chunks[k][1] = mel_step_size

\* C24: at every feature-map length T >= 0 and every frame rate, the rates
\* above the feature rate (repeated start indices) included, the aligner loop
\* once entered comes to an end, and it ends with a finite sequence of at
\* least one window: never more iterations than columns * fps / 80 allow.
C24_AlignerTerminates ==
    /\ (pc = "align") ~> (AlignerDone /\ Len(mel_chunks) >= 1)
    /\ [](pc = "align" =>
            /\ Len(mel_chunks) = i_mel
            /\ i_mel * FeatureRate * fps[2] <= (mel_len + 1) * fps[1])

C24_Witness ==
    /\ AlignerDone /\ fps = <<100, 1>> /\ mel_len = 20
    /\ Len(mel_chunks) = 8 /\ mel_chunks[1] = mel_chunks[2]

\* C25: when face_detect succeeds it returns one (crop, coordinates) pair for
\* each input frame, in the order of the frames; crop j is the slice of frame
\* j itself that the final box (smoothed unless nosmooth) selects, and the
\* coordinates recorded with it are (y1, y2, x1, x2) of that same box, so
\* that the later paste writes to the region the crop was read from.
C25_OnePairPerFrame ==
    /\ (DetectionDone /\ error # "FaceNotDetected" /\ pc # "detect") =>
          /\ Len(results) = Len(images)
          /\ \A j \in 1..Len(results) :
                LET box == IF nosmooth THEN clamped[j]
                           ELSE get_smoothened_boxes(clamped, SmoothT)[j]
                IN  /\ results[j].frame = j - 1
                    /\ results[j].coords[1] = box[2]
                    /\ results[j].coords[2] = box[4]
                    /\ results[j].coords[3] = box[1]
                    /\ results[j].coords[4] = box[3]
    /\ \A a \in 1..Len(heap) : \A n \in 1..Len(heap[a].writes) :
          LET w == heap[a].writes[n]
          IN  /\ w.coords = w.face.coords
              /\ heap[w.face.of].base = heap[a].base
              /\ \E j \in 1..Len(results) :
                    /\ results[j].frame = heap[a].base
                    /\ results[j].coords = w.coords

C25_Witness ==
    /\ entry = "face_detect" /\ pc = "returned" /\ error = "none" /\ ~nosmooth
    /\ Len(images) = 3 /\ Len(results) = 3
    /\ images[2] # images[1]
    /\ results[3].coords = <<2, 15, 1, 4>>

\* The columns at which the model input is examined: the first, the last and
\* the two in the middle.
InputCols == {0, img_size \div 2 - 1, img_size \div 2, img_size - 1}

\* C26: in every item of a model input, channels 0 .. 2 are the resized crop
\* with every row from img_size / 2 on set to zero and the rows above left
\* as they are, and channels 3 .. 5 are the resized crop unchanged: the mask
\* is written to a copy.
C26_MaskedAndUnmaskedChannels ==
    pc = "infer" =>
        \A j \in 1..Len(batch.img_batch) :
            \A ch \in 0..5, u \in 0..(img_size - 1), v \in InputCols :
                LET face == batch.img_batch[j]
                    crop == FacePixel(face, u, v)
                IN  InputPixel(face, ch, u, v) =
                        IF ch < 3 /\ u >= img_size \div 2 THEN <<0, 255>>
                        ELSE <<crop, 255>>

C26_Witness ==
    /\ pc = "infer" /\ img_size = DefaultImgSize /\ Len(batch.img_batch) = 2
    /\ \E v \in InputCols :
          /\ InputPixel(batch.img_batch[2], 0, 48, v) = <<0, 255>>
          /\ InputPixel(batch.img_batch[2], 3, 48, v)[1] > 0
          /\ InputPixel(batch.img_batch[2], 0, 47, v)[1] > 0
          /\ InputPixel(batch.img_batch[2], 0, 47, v)
                = InputPixel(batch.img_batch[2], 5, 47, v)

\* The items of the first n batches yielded.
ItemsOfFirst(n) == SeqSum([j \in 1..n |-> BatchLen(yielded[j])])

Composited(a) == heap[a].writes # <<>>

\* C27: while a batch is with the model no clip exists, and every item of
\* every batch yielded before it has been composited and appended: batch
\* k + 1 is submitted only after batch k is composited in full; a clip is
\* returned only when every batch yielded has been through the model, no
\* feature window is left to batch and every item has been composited.
C27_ClipAfterAllBatches ==
    entry = "generate_avatar" =>
        /\ pc = "infer" =>
              /\ clip = NoClip
              /\ model_calls = Len(yielded) - 1
              /\ Len(frames_list) = ItemsOfFirst(Len(yielded) - 1)
        /\ pc = "datagen" =>
              /\ clip = NoClip
              /\ model_calls = Len(yielded)
              /\ Len(frames_list) = ItemsYielded
        /\ \A p \in 1..Len(frames_list) : Composited(frames_list[p])
        /\ clip # NoClip =>
              /\ pc = "returned"
              /\ model_calls = Len(yielded)
              /\ next_mel = Len(mel_chunks)
              /\ ItemsYielded = Len(mel_chunks)
              /\ Len(clip.frames) = ItemsYielded
              /\ \A p \in 1..Len(clip.frames) : Composited(clip.frames[p])

C27_Witness ==
    /\ entry = "generate_avatar" /\ pc = "infer" /\ wav2lip_batch_size = 2
    /\ Len(mel_chunks) = 3 /\ Len(yielded) = 2 /\ model_calls = 1
    /\ Len(frames_list) = 2 /\ BatchLen(batch) = 1
    /\ Composited(frames_list[2])

\* Box j as an out-of-place smoothing would give it: the truncated mean of
\* the unsmoothed boxes of its window.
OutOfPlaceBox(j) ==
    [c \in 1..4 |->
        TruncDiv(UnsmoothedWindowSum(j, c), windows[j][2] - windows[j][1])]

\* The window of index j starts at j or later: it holds no entry that was
\* written before index j is processed.
WindowAhead(j) == windows[j][1] >= j - 1

C29_RetryLoopTerminates ==
    /\ (pc = "detect") ~> (pc # "detect")
    /\ [](attempts # <<>> =>
            /\ attempts[1] = face_det_batch_size
            /\ 2 ^ (Len(attempts) - 1) <= face_det_batch_size
            /\ \A j \in 1..Len(attempts) :
                  /\ attempts[j] >= 1
                  /\ j > 1 => attempts[j] < attempts[j - 1]
            /\ batch_size = Last(attempts)
            /\ pc # "detect" =>
                  \/ error = "ImageTooBig"
                  \/ Len(predictions) = Len(images))

C29_Witness ==
    /\ face_det_batch_size = 7 /\ attempts = <<7, 3, 1>> /\ ooms = <<7, 3>>
    /\ pc = "returned" /\ error = "none" /\ Len(predictions) = 3

\* The ids reached from the ids of S through children_ids in at most n steps.
RECURSIVE ReachIn(_, _, _)
ReachIn(store, S, n) ==
    IF n = 0 THEN S
    ELSE ReachIn(store,
                 S \cup {c \in ChatIds \cup {NotStored} :
                            \E i \in S : /\ Stored(store, i)
                                         /\ \E m \in 1..Len(store[i].children_ids) :
                                               store[i].children_ids[m] = c},
                 n - 1)

\* The chat archive_chat was called with and its transitive descendants, in
\* the collection as it was at the call.
Subtree == ReachIn(archive_call.before, {archive_call.id}, MaxChats)

ArchiveReturned == entry = "archive_chat" /\ pc = "returned" /\ error = "none"

====
